---- MODULE Spec2Model ----
(***************************************************************************)
(* A model of scripts/develop.js, the development build orchestrator of    *)
(* Feather Wiki: the watch / rebuild / serve loop around the single output *)
(* file develop/index.html, and the template substitution functions.       *)
(*                                                                         *)
(* Text is a sequence of tokens.  A token is one character ("a", "$", "&", *)
(* " ", ".") or one indivisible piece of a marker ("{{", "}}",             *)
(* "cssOutput", "jsOutput", "translate:", "package.json:", a locale key, a *)
(* path segment).  The marker {{cssOutput}} is the three tokens            *)
(* <<"{{", "cssOutput", "}}">>.                                            *)
(***************************************************************************)
EXTENDS Integers, Sequences, FiniteSets, TLC

VARIABLES
    phase,      \* position of start(): "init", "watch" or "exited"
    handler,    \* position of the build.onEnd callback: "idle" or "reading"
    cur,        \* the script output of the build result being handled
    file,       \* develop/index.html: NoFile, or its text
    writes,     \* the fs.writeFile operations in flight
    resp,       \* the response to the last request, or NoResp
    builds,     \* build results dispatched so far
    reqs,       \* requests handled so far
    hist,       \* history: what the last steps did (for the properties only)
    call        \* one application of a substitution function: input, output

vars == <<phase, handler, cur, file, writes, resp, builds, reqs, hist, call>>

loopVars == <<phase, handler, cur, file, writes, resp, builds, reqs, hist>>

(***************************************************************************)
(* Text helpers.                                                           *)
(***************************************************************************)

\* Whether pat occurs in s at index i.
MatchAt(s, pat, i) ==
    /\ i >= 1
    /\ i + Len(pat) - 1 <= Len(s)
    /\ \A k \in 1..Len(pat) : s[i + k - 1] = pat[k]

\* String.prototype.indexOf: the first index of pat in s (1-based), 0 if none.
IndexOf(s, pat) ==
    LET hits == {i \in 1..(Len(s) + 1) : MatchAt(s, pat, i)}
    IN  IF hits = {} THEN 0 ELSE CHOOSE i \in hits : \A j \in hits : i <= j

\* The number of occurrences of pat in s.
Count(s, pat) == Cardinality({i \in 1..Len(s) : MatchAt(s, pat, i)})

Before(s, i) == SubSeq(s, 1, i - 1)

After(s, i, n) == SubSeq(s, i + n, Len(s))

\* GetSubstitution of ECMAScript for a match without capture groups:
\* $$ is a dollar, $& the matched text, $ and a backquote (the token "bq")
\* the text before the match, $' the text after it; any other $ is copied.
RECURSIVE GetSubstitution(_, _, _, _)
GetSubstitution(repl, matched, before, after) ==
    IF repl = <<>> THEN <<>>
    ELSE IF Head(repl) = "$" /\ Len(repl) >= 2 /\ repl[2] \in {"$", "&", "bq", "'"}
    THEN LET rest == GetSubstitution(Tail(Tail(repl)), matched, before, after)
         IN  CASE repl[2] = "$" -> <<"$">> \o rest
               [] repl[2] = "&" -> matched \o rest
               [] repl[2] = "bq" -> before \o rest
               [] repl[2] = "'" -> after \o rest
    ELSE <<Head(repl)>> \o GetSubstitution(Tail(repl), matched, before, after)

\* String.prototype.replace(pattern, replacement) with a string pattern:
\* the first occurrence only, the replacement text read by GetSubstitution.
Replace(s, pat, repl) ==
    LET i == IndexOf(s, pat)
    IN  IF i = 0 THEN s
        ELSE Before(s, i)
             \o GetSubstitution(repl, pat, Before(s, i), After(s, i, Len(pat)))
             \o After(s, i, Len(pat))

\* String.prototype.split(separator): the pieces between the occurrences.
RECURSIVE Split(_, _)
Split(s, sep) ==
    LET i == IndexOf(s, sep)
    IN  IF i = 0 THEN <<s>>
        ELSE <<Before(s, i)>> \o Split(After(s, i, Len(sep)), sep)

(***************************************************************************)
(* handleBuildResult: the assembly loop.                                   *)
(***************************************************************************)

cssMarker == <<"{{", "cssOutput", "}}">>

jsMarker == <<"{{", "jsOutput", "}}">>

\* htmlParts[1] of a split without a second piece is undefined, and
\* string + undefined appends the text "undefined".
PartOrUndefined(parts, n) == IF n <= Len(parts) THEN parts[n] ELSE <<"undefined">>

\* One turn of the loop over the output files: out.ext is the extension of
\* out.path, out.text the decoded out.contents.
AssembleOne(html, out) ==
    IF out.ext = "css" THEN Replace(html, cssMarker, out.text)
    ELSE IF out.ext = "js"
    THEN LET htmlParts == Split(html, jsMarker)
         IN  htmlParts[1] \o out.text \o PartOrUndefined(htmlParts, 2)
    ELSE html

\* for (const out of [...cssResult.outputFiles, ...result.outputFiles])
RECURSIVE Assemble(_, _)
Assemble(html, outs) ==
    IF outs = <<>> THEN html
    ELSE Assemble(AssembleOne(html, Head(outs)), Tail(outs))

OutputFiles(css, js) == <<[ext |-> "css", text |-> css], [ext |-> "js", text |-> js]>>

(***************************************************************************)
(* Locales: loadLocale, english, activeLocale, localize.                   *)
(***************************************************************************)

\* The order in which the locale files list their keys.
KeyOrder == <<"k1", "k2">>

LocaleKeys == {KeyOrder[i] : i \in 1..Len(KeyOrder)}

Missing == [exists |-> FALSE]

LocaleFile(map) == [exists |-> TRUE, map |-> map]

\* loadLocale(localeName) ?? fallback
LoadLocaleOr(files, name, fallback) ==
    IF name \in DOMAIN files /\ files[name].exists THEN files[name].map ELSE fallback

\* const english = loadLocale('en-US') ?? {};
English(files) == LoadLocaleOr(files, "en-US", <<>>)

\* const activeLocale = loadLocale(defaultLocale) ?? english;
ActiveLocale(files, defaultLocale) == LoadLocaleOr(files, defaultLocale, English(files))

\* { ...english, ...activeLocale }
Translations(english, active) ==
    [k \in (DOMAIN english) \cup (DOMAIN active) |->
        IF k \in DOMAIN active THEN active[k] ELSE english[k]]

\* Object.keys(translations): the keys of english in their order, then the
\* keys only activeLocale has.
TranslationKeys(english, active) ==
    LET inEnglish(k) == k \in DOMAIN english
        onlyActive(k) == k \in DOMAIN active /\ k \notin DOMAIN english
    IN  SelectSeq(KeyOrder, inEnglish) \o SelectSeq(KeyOrder, onlyActive)

\* String.prototype.replace(regex, replacement) with a global regex that
\* matches exactly the token sequences of pats: every match, left to right,
\* the replaced text not scanned again.
RECURSIVE ReplaceAllFrom(_, _, _, _)
ReplaceAllFrom(s, i, pats, repl) ==
    IF i > Len(s) THEN <<>>
    ELSE LET ms == {p \in pats : MatchAt(s, p, i)}
         IN  IF ms = {} THEN <<s[i]>> \o ReplaceAllFrom(s, i + 1, pats, repl)
             ELSE LET p == CHOOSE q \in ms : TRUE
                  IN  GetSubstitution(repl, p, Before(s, i), After(s, i, Len(p)))
                      \o ReplaceAllFrom(s, i + Len(p), pats, repl)

ReplaceAll(s, pats, repl) == ReplaceAllFrom(s, 1, pats, repl)

localeNameMarker == <<"{{", "localeName", "}}">>

\* new RegExp('\\{\\{translate: ?' + key + '\\}\\}', 'g'), for a key of letters
TranslateRegex(key) ==
    {<<"{{", "translate:", key, "}}">>, <<"{{", "translate:", " ", key, "}}">>}

RECURSIVE LocalizeKeys(_, _, _)
LocalizeKeys(result, keys, translations) ==
    IF keys = <<>> THEN result
    ELSE LocalizeKeys(
             ReplaceAll(result, TranslateRegex(Head(keys)), translations[Head(keys)]),
             Tail(keys), translations)

localize(content, english, active, localeName) ==
    LET translations == Translations(english, active)
        result == ReplaceAll(content, {localeNameMarker}, <<localeName>>)
    IN  LocalizeKeys(result, TranslationKeys(english, active), translations)

(***************************************************************************)
(* package.json: the values of the descriptor, dotted paths, the metadata  *)
(* pass (injectPackageVariables on script sources, injectPackageJsonData   *)
(* on the assembled document).                                             *)
(***************************************************************************)

\* The JavaScript values a parsed descriptor and its lookups produce.
Null == [t |-> "null"]

Undefined == [t |-> "undefined"]

Str(s) == [t |-> "string", s |-> s]

Num(n) == [t |-> "number", n |-> n]

Obj(f) == [t |-> "object", f |-> f]

\* A TypeError: a property read of null or undefined.
Throw == [t |-> "throw"]

\* v[k]: an own field of an object, the length of a string, undefined for
\* anything else a value has not; reading a property of null or undefined
\* throws.
GetProp(v, k) ==
    CASE v.t = "throw" -> Throw
      [] v.t \in {"null", "undefined"} -> Throw
      [] v.t = "object" -> IF k \in DOMAIN v.f THEN v.f[k] ELSE Undefined
      [] v.t = "string" -> IF k = "length" THEN Num(Len(v.s)) ELSE Undefined
      [] OTHER -> Undefined

\* x ?? ''
OrEmpty(x) == IF x.t \in {"null", "undefined"} THEN Str(<<>>) ELSE x

\* The callback of reduce (lines 135-140 and 191-196), without the ?? '':
\* a null or absent field stays null or undefined.
ReduceStepNoDefault(packageJson, result, current) ==
    IF result = Null THEN GetProp(packageJson, current)
    ELSE GetProp(result, current)

\* The callback of reduce (lines 135-140 and 191-196).
ReduceStep(packageJson, result, current) ==
    IF result = Null THEN OrEmpty(GetProp(packageJson, current))
    ELSE OrEmpty(GetProp(result, current))

\* value.split('.').reduce(callback, null): the value after each segment.
RECURSIVE ReduceTrace(_, _, _)
ReduceTrace(packageJson, result, segments) ==
    IF segments = <<>> THEN <<>>
    ELSE LET next == ReduceStep(packageJson, result, Head(segments))
         IN  <<next>> \o ReduceTrace(packageJson, next, Tail(segments))

ResolvePath(packageJson, segments) ==
    LET trace == ReduceTrace(packageJson, Null, segments)
    IN  IF trace = <<>> THEN Null ELSE trace[Len(trace)]

\* String.prototype.trim on tokens: the blanks at both ends go.
RECURSIVE TrimStart(_)
TrimStart(s) == IF s # <<>> /\ Head(s) = " " THEN TrimStart(Tail(s)) ELSE s

RECURSIVE TrimEnd(_)
TrimEnd(s) ==
    IF s # <<>> /\ s[Len(s)] = " " THEN TrimEnd(SubSeq(s, 1, Len(s) - 1)) ELSE s

Trim(s) == TrimEnd(TrimStart(s))

\* The property name a piece of the split path is: its tokens joined.
RECURSIVE Join(_)
Join(tokens) == IF tokens = <<>> THEN "" ELSE Head(tokens) \o Join(Tail(tokens))

\* match.replace('package.json:', '').trim().split('.')
PathSegments(match) ==
    LET value == Trim(Replace(match, <<"package.json:">>, <<>>))
        pieces == Split(value, <<".">>)
    IN  [i \in 1..Len(pieces) |-> Join(pieces[i])]

\* content.match(/(?<={{)package\.json:.+?(?=}})/g): the matches from index
\* i on.  A match starts at "package.json:" right after "{{", takes at least
\* one more token and ends before the first "}}" that follows.
RECURSIVE PackageMatches(_, _)
PackageMatches(s, i) ==
    IF i > Len(s) THEN <<>>
    ELSE IF i >= 2 /\ s[i] = "package.json:" /\ s[i - 1] = "{{"
    THEN LET ends == {j \in (i + 1)..(Len(s) - 1) : s[j + 1] = "}}"}
         IN  IF ends = {} THEN PackageMatches(s, i + 1)
             ELSE LET j == CHOOSE e \in ends : \A f \in ends : e <= f
                  IN  <<SubSeq(s, i, j)>> \o PackageMatches(s, j + 1)
    ELSE PackageMatches(s, i + 1)

\* ToString of a replacement value that is no function.
ToText(v) ==
    CASE v.t = "string" -> v.s
      [] v.t = "number" -> <<ToString(v.n)>>
      [] v.t = "object" -> <<"[object Object]">>
      [] OTHER -> <<v.t>>

\* matches.map(match => ({ match: '{{' + match + '}}', replace }))
Replacements(content, packageJson) ==
    LET matches == PackageMatches(content, 1)
    IN  [i \in 1..Len(matches) |->
            [match |-> <<"{{">> \o matches[i] \o <<"}}">>,
             replace |-> ResolvePath(packageJson, PathSegments(matches[i]))]]

\* .forEach(m => { result = result.replace(m.match, m.replace); })
RECURSIVE ApplyReplacements(_, _)
ApplyReplacements(result, ms) ==
    IF ms = <<>> THEN result
    ELSE ApplyReplacements(Replace(result, Head(ms).match, ToText(Head(ms).replace)),
                           Tail(ms))

injectPackageVariables(content, packageJson) ==
    ApplyReplacements(content, Replacements(content, packageJson))

\* The text injectPackageJsonData hands to writeHtmlOutput.
injectPackageJsonData(html, packageJson) ==
    ApplyReplacements(html, Replacements(html, packageJson))

(***************************************************************************)
(* The watch / rebuild / serve loop.                                       *)
(***************************************************************************)

MaxBuilds == 3

MaxRequests == 2

\* What the loop reads from disk and from the bundler.
ShellHtml ==
    <<"{{", "cssOutput", "}}", "{{", "jsOutput", "}}", "{{", "package.json:", "name", "}}">>

CssOutput == <<"c">>

JsOutputs == {<<"x">>, <<"y", "z">>}

PackageJson == Obj([name |-> Str(<<"f", "w">>)])

LocaleFiles == [e \in {"en-US"} |-> LocaleFile([k1 |-> <<"a">>])]

DefaultLocale == "en-US"

BuildResults == [errors : {0, 1}, js : JsOutputs]

NoFile == [exists |-> FALSE, text |-> <<>>]

FileOf(text) == [exists |-> TRUE, text |-> text]

\* develop/index.html as an earlier run of the script left it.
StaleFile == FileOf(<<"old">>)

NoResp == [handled |-> FALSE]

NoHist ==
    [ev |-> "none", errors |-> 0, phaseBefore |-> "init", fileBefore |-> NoFile,
     writesBefore |-> {}, js |-> <<>>, lastDoc |-> <<>>, errorSeen |-> FALSE,
     afterError |-> FALSE]

Step(ev) ==
    [hist EXCEPT !.ev = ev, !.errors = 0, !.fileBefore = NoFile, !.writesBefore = {}]

IdleCall == [op |-> "none"]

\* if (!result || result.errors.length): an always-false test.
BuildFailedNever(result) == FALSE

\* if (!result || result.errors.length)
BuildFailed(result) == result.errors # 0

\* lines 111-125: the text handleBuildResult hands on to be written.
Document(html, js) ==
    LET assembled == Assemble(html, OutputFiles(CssOutput, js))
        english == English(LocaleFiles)
        active == ActiveLocale(LocaleFiles, DefaultLocale)
    IN  injectPackageJsonData(localize(assembled, english, active, DefaultLocale),
                              PackageJson)

\* The callback of build.onEnd is called with the result of a build: the
\* initial ctx.rebuild() of start(), or a rebuild of ctx.watch().  A failed
\* build returns at once; a failed initial build also rejects ctx.rebuild(),
\* and start() exits.  Otherwise handleBuildResult starts reading index.html.
OnEnd(result) ==
    /\ phase \in {"init", "watch"}
    /\ handler = "idle"
    /\ builds < MaxBuilds
    /\ builds' = builds + 1
    /\ IF BuildFailed(result)
       THEN /\ handler' = "idle"
            /\ cur' = cur
            /\ phase' = IF phase = "init" THEN "exited" ELSE phase
       ELSE /\ handler' = "reading"
            /\ cur' = result.js
            /\ phase' = phase
    /\ hist' = [hist EXCEPT !.ev = "onEnd", !.errors = result.errors,
                            !.phaseBefore = phase, !.fileBefore = file,
                            !.writesBefore = writes,
                            !.errorSeen = @ \/ result.errors # 0]
    /\ UNCHANGED <<file, writes, resp, reqs, call>>

\* await fs.promises.readFile(fileName) has resolved: the rest of
\* handleBuildResult, injectPackageJsonData and writeHtmlOutput run without
\* a break.  fs.writeFile(path, html, callback) starts the write and returns
\* undefined, so the await of it waits for nothing: the handler is done
\* while the write is in flight.  After the initial build, start() goes on
\* to startServer() and ctx.watch().
HandleBuildResult ==
    /\ phase \in {"init", "watch"}
    /\ handler = "reading"
    /\ LET html == Document(ShellHtml, cur)
       IN  /\ writes' = writes \cup {[id |-> builds, data |-> html, st |-> "queued"]}
           /\ hist' = [Step("handled") EXCEPT !.js = cur, !.lastDoc = html,
                                              !.afterError = hist.errorSeen]
    /\ handler' = "idle"
    /\ phase' = "watch"
    /\ UNCHANGED <<cur, file, resp, builds, reqs, call>>

\* The read of index.html is rejected: catch (e) { process.exit(1) }.
HandleBuildResultThrows ==
    /\ phase \in {"init", "watch"}
    /\ handler = "reading"
    /\ phase' = "exited"
    /\ handler' = "idle"
    /\ hist' = Step("threw")
    /\ UNCHANGED <<cur, file, writes, resp, builds, reqs, call>>

\* The bytes of data over the old bytes of the file, from offset 0.
Overlay(data, old) == data \o SubSeq(old, Len(data) + 1, Len(old))

\* fs.writeFile opens the file with flag 'w': created, or cut to nothing.
WriteOpen(w) ==
    /\ phase = "watch"
    /\ w \in writes /\ w.st = "queued"
    /\ file' = FileOf(<<>>)
    /\ writes' = (writes \ {w}) \cup {[w EXCEPT !.st = "open"]}
    /\ hist' = Step("writeOpen")
    /\ UNCHANGED <<phase, handler, cur, resp, builds, reqs, call>>

\* fs.writeFile writes the text and closes; the callback logs the size.
WriteDone(w) ==
    /\ phase = "watch"
    /\ w \in writes /\ w.st = "open"
    /\ file' = FileOf(Overlay(w.data, file.text))
    /\ writes' = writes \ {w}
    /\ hist' = Step("writeDone")
    /\ UNCHANGED <<phase, handler, cur, resp, builds, reqs, call>>

\* The write fails: if (err) throw err, in a callback nothing catches.
WriteError(w) ==
    /\ phase = "watch"
    /\ w \in writes
    /\ writes' = writes \ {w}
    /\ phase' = "exited"
    /\ hist' = Step("writeError")
    /\ UNCHANGED <<handler, cur, file, resp, builds, reqs, call>>

\* The request listener of startServer: writeHead(200, ...), then
\* res.end(fs.readFileSync(outputFilePath)).  readFileSync of a file that
\* does not exist throws in the listener, and nothing catches it.
Request(path, method) ==
    /\ phase = "watch"
    /\ reqs < MaxRequests
    /\ reqs' = reqs + 1
    /\ resp' = [handled |-> TRUE, path |-> path,
                status |-> 200, contentType |-> "text/html",
                answered |-> file.exists, body |-> file.text,
                initialWritten |-> \A w \in writes : w.id # 1,
                prev |-> IF resp.handled /\ hist.ev = "request"
                         THEN <<resp.path, resp.body>> ELSE <<>>]
    /\ phase' = IF file.exists THEN phase ELSE "exited"
    /\ hist' = Step("request")
    /\ UNCHANGED <<handler, cur, file, writes, builds, call>>

Paths == {"/", "/foo/bar"}

Methods == {"GET", "POST"}

Init ==
    /\ phase = "init"
    /\ handler = "idle"
    /\ cur = <<>>
    /\ file \in {NoFile, StaleFile}
    /\ writes = {}
    /\ resp = NoResp
    /\ builds = 0
    /\ reqs = 0
    /\ hist = NoHist
    /\ call = IdleCall

Next ==
    \/ \E result \in BuildResults : OnEnd(result)
    \/ HandleBuildResult
    \/ HandleBuildResultThrows
    \/ \E w \in writes : WriteOpen(w)
    \/ \E w \in writes : WriteDone(w)
    \/ \E w \in writes : WriteError(w)
    \/ \E path \in Paths, method \in Methods : Request(path, method)

Spec == Init /\ [][Next]_vars

(***************************************************************************)
(* The substitution functions on their own: Init draws the inputs, the     *)
(* action applies the function.  The loop stands still.                    *)
(***************************************************************************)

LoopOff ==
    /\ phase = "off"
    /\ handler = "idle"
    /\ cur = <<>>
    /\ file = NoFile
    /\ writes = {}
    /\ resp = NoResp
    /\ builds = 0
    /\ reqs = 0
    /\ hist = NoHist

\* ---- assembly ----------------------------------------------------------

\* Shells with exactly one {{cssOutput}} and exactly one {{jsOutput}}.
Shells ==
    {<<"<">> \o cssMarker \o <<"|">> \o jsMarker \o <<">">>,
     <<"<">> \o jsMarker \o <<"|">> \o cssMarker \o <<">">>}

\* Bundler outputs: plain text, text with replacement patterns, text that
\* holds a marker.
Outputs ==
    {<<>>, <<"a">>, <<"a", "b">>, <<"$", "&">>, <<"$", "$">>, <<"$", "'">>,
     <<"$", "bq">>, <<"a", "$">>, <<"$", "1">>, cssMarker, jsMarker}

InitAssemble ==
    /\ LoopOff
    /\ call \in [op : {"assemble"}, shell : Shells, css : Outputs, js : Outputs,
                 done : {FALSE}, out : {<<>>}]

AssembleCall ==
    /\ call.op = "assemble" /\ ~call.done
    /\ call' = [call EXCEPT !.done = TRUE,
                            !.out = Assemble(call.shell, OutputFiles(call.css, call.js))]
    /\ UNCHANGED loopVars

NextAssemble == AssembleCall

SpecAssemble == InitAssemble /\ [][NextAssemble]_vars

\* ---- localize ----------------------------------------------------------

\* Translated strings: plain ones, and ones with a dollar pattern.
Strings == {<<"a">>, <<"b">>, <<"$", "$">>, <<"$", "&">>}

Mappings == UNION {[S -> Strings] : S \in SUBSET LocaleKeys}

LocaleFileStates == {Missing} \cup {LocaleFile(m) : m \in Mappings}

Translate(key, blank) ==
    <<"{{", "translate:">> \o (IF blank THEN <<" ">> ELSE <<>>) \o <<key, "}}">>

LocalizeContents ==
    {<<"x">> \o Translate(k, b) \o <<"y">> : k \in LocaleKeys, b \in BOOLEAN}
    \cup {Translate("k1", FALSE) \o localeNameMarker \o Translate("k2", TRUE)}

InitLocalize ==
    /\ LoopOff
    /\ call \in [op : {"localize"},
                 files : [{"en-US", "fr"} -> LocaleFileStates],
                 defaultLocale : {"en-US", "fr"},
                 content : LocalizeContents,
                 done : {FALSE}, out : {<<>>}]

LocalizeCall ==
    /\ call.op = "localize" /\ ~call.done
    /\ call' = [call EXCEPT !.done = TRUE,
                            !.out = localize(call.content, English(call.files),
                                             ActiveLocale(call.files, call.defaultLocale),
                                             call.defaultLocale)]
    /\ UNCHANGED loopVars

NextLocalize == LocalizeCall

SpecLocalize == InitLocalize /\ [][NextLocalize]_vars

\* ---- the metadata pass -------------------------------------------------

MaxPath == 3

Segments == {"name", "a", "b", "c", "length"}

DottedPaths == UNION {[1..n -> Segments] : n \in 1..MaxPath}

Absent == [t |-> "absent"]

\* A parsed package.json with the top-level fields that are not Absent.
Descriptor(name, a, b) ==
    LET val == [k \in {"name", "a", "b"} |->
                    IF k = "name" THEN name ELSE IF k = "a" THEN a ELSE b]
        fields == {k \in {"name", "a", "b"} : val[k] # Absent}
    IN  Obj([k \in fields |-> val[k]])

Descriptors ==
    {Descriptor(n, a, b) :
        n \in {Absent, Str(<<"f", "w">>), Str(<<"$", "&">>), Str(<<"$", "$">>)},
        a \in {Absent, Null, Str(<<"s">>), Obj([b |-> Null]),
               Obj([b |-> Obj([c |-> Str(<<"v">>)])])},
        b \in {Absent, Str(<<"top">>)}}

RECURSIVE PathTokens(_)
PathTokens(path) ==
    IF Len(path) <= 1 THEN path
    ELSE <<Head(path), ".">> \o PathTokens(Tail(path))

PackageMarker(path, blank) ==
    <<"{{", "package.json:">> \o (IF blank THEN <<" ">> ELSE <<>>)
    \o PathTokens(path) \o <<"}}">>

\* A text around one marker, written without or with a blank, or twice.
PackageContent(path, form) ==
    CASE form = 1 -> <<"x">> \o PackageMarker(path, FALSE) \o <<"y">>
      [] form = 2 -> <<"x">> \o PackageMarker(path, TRUE) \o <<"y">>
      [] OTHER -> PackageMarker(path, FALSE) \o <<"x">> \o PackageMarker(path, FALSE)

InitPackage ==
    /\ LoopOff
    /\ \E pj \in Descriptors, path \in DottedPaths, form \in 1..3 :
          call = [op |-> "inject", packageJson |-> pj, path |-> path,
                  content |-> PackageContent(path, form),
                  done |-> FALSE, out |-> <<>>, replacements |-> <<>>]

InjectCall ==
    /\ call.op = "inject" /\ ~call.done
    /\ call' = [call EXCEPT !.done = TRUE,
                            !.replacements = Replacements(call.content, call.packageJson),
                            !.out = injectPackageJsonData(call.content, call.packageJson)]
    /\ UNCHANGED loopVars

NextPackage == InjectCall

SpecPackage == InitPackage /\ [][NextPackage]_vars

(***************************************************************************)
(* Properties.                                                             *)
(***************************************************************************)

\* The document the loop's inputs assemble to: the style output, the script
\* output, the name of the package.
ExpectedDocument(js) == <<"c">> \o js \o <<"f", "w">>

\* C1: in watch mode a build that ends with errors leaves the handler idle,
\* the output file and the writes in flight as they were and the process
\* running, a further build can be dispatched, and a build that ends
\* without errors starts a write of the document assembled from it.
C1_FailedBuildWritesNothing ==
    /\ (hist.ev = "onEnd" /\ hist.phaseBefore = "watch" /\ hist.errors # 0) =>
          /\ handler = "idle"
          /\ file = hist.fileBefore
          /\ writes = hist.writesBefore
          /\ phase = "watch"
          /\ builds < MaxBuilds =>
                ENABLED (\E r \in BuildResults : r.errors = 0 /\ OnEnd(r))
    /\ (hist.ev = "onEnd" /\ hist.errors = 0) =>
          /\ handler = "reading"
          /\ phase # "exited"
    /\ hist.ev = "handled" =>
          \E w \in writes :
             /\ w.id = builds
             /\ w.st = "queued"
             /\ w.data = ExpectedDocument(hist.js)

\* A build without errors, after a failed one, has started its write while
\* the output file of an earlier build is in place.
C1_Witness ==
    /\ hist.ev = "handled"
    /\ hist.afterError
    /\ file.exists /\ file # StaleFile /\ file.text # <<>>
    /\ \E w \in writes : w.data = ExpectedDocument(hist.js)

\* C2: when a request reads the output file, the write of the initial build
\* has completed.
C2_WrittenBeforeFirstRead == resp.handled => resp.initialWritten

\* C7: every request is answered with status 200, Content-Type text/html and
\* the contents of the output file at that moment, and two requests with no
\* write between them get the same body.
C7_EveryRequestAnswered ==
    resp.handled =>
        /\ resp.answered
        /\ resp.status = 200
        /\ resp.contentType = "text/html"
        /\ hist.ev = "request" => (file.exists /\ resp.body = file.text)
        /\ resp.prev # <<>> => resp.prev[2] = resp.body

\* C8: at most one write of the output file is in flight, and none is when
\* the handling of a build result begins.
C8_NoOverlap ==
    /\ Cardinality(writes) <= 1
    /\ handler = "reading" => writes = {}

\* C10: after builds without errors, once no write is in flight, the output
\* file holds the document of the most recent build.
C10_LastBuildWins ==
    (/\ phase = "watch"
     /\ ~hist.errorSeen
     /\ handler = "idle"
     /\ builds >= 1
     /\ writes = {}) => file = FileOf(hist.lastDoc)

\* The shell with each marker replaced by the text given for it, copied as
\* it is, from index i on.
RECURSIVE Splice(_, _, _, _)
Splice(shell, i, css, js) ==
    IF i > Len(shell) THEN <<>>
    ELSE IF MatchAt(shell, cssMarker, i)
    THEN css \o Splice(shell, i + Len(cssMarker), css, js)
    ELSE IF MatchAt(shell, jsMarker, i)
    THEN js \o Splice(shell, i + Len(jsMarker), css, js)
    ELSE <<shell[i]>> \o Splice(shell, i + 1, css, js)

\* C3: for a shell with one {{cssOutput}} and one {{jsOutput}}, assembly
\* yields the shell with the first replaced by the style output and the
\* second by the script output, whatever the outputs contain.
C3_AssemblyLiteral ==
    (call.op = "assemble" /\ call.done) =>
        call.out = Splice(call.shell, 1, call.css, call.js)

\* The content with {{localeName}} and every translate marker of a key of
\* one of the two mappings replaced, the active mapping first.
RECURSIVE Translated(_, _, _, _, _)
Translated(s, i, english, active, name) ==
    LET keys == {k \in (DOMAIN english) \cup (DOMAIN active) :
                    \E b \in BOOLEAN : MatchAt(s, Translate(k, b), i)}
    IN  IF i > Len(s) THEN <<>>
        ELSE IF MatchAt(s, localeNameMarker, i)
        THEN <<name>> \o Translated(s, i + Len(localeNameMarker), english, active, name)
        ELSE IF keys # {}
        THEN LET k == CHOOSE x \in keys : TRUE
                 b == CHOOSE x \in BOOLEAN : MatchAt(s, Translate(k, x), i)
             IN  (IF k \in DOMAIN active THEN active[k] ELSE english[k])
                 \o Translated(s, i + Len(Translate(k, b)), english, active, name)
        ELSE <<s[i]>> \o Translated(s, i + 1, english, active, name)

\* C4: localize replaces every translate marker of a key K by the active
\* mapping's value when the active mapping has K, and by the en-US mapping's
\* value when only that one has K.
C4_MergedTranslation ==
    (call.op = "localize" /\ call.done) =>
        call.out = Translated(call.content, 1, English(call.files),
                              ActiveLocale(call.files, call.defaultLocale),
                              call.defaultLocale)

\* The content with every marker of ms replaced by the text of its value,
\* copied as it is.
RECURSIVE Injected(_, _, _)
Injected(s, i, ms) ==
    LET hits == {n \in 1..Len(ms) : MatchAt(s, ms[n].match, i)}
    IN  IF i > Len(s) THEN <<>>
        ELSE IF hits # {}
        THEN LET n == CHOOSE x \in hits : TRUE
             IN  ToText(ms[n].replace) \o Injected(s, i + Len(ms[n].match), ms)
        ELSE <<s[i]>> \o Injected(s, i + 1, ms)

\* C5: the metadata pass replaces every occurrence of each marker it found
\* by the resolved value copied as it is, and no found marker remains.
C5_LiteralMetadata ==
    (call.op = "inject" /\ call.done) =>
        /\ call.out = Injected(call.content, 1, call.replacements)
        /\ \A n \in 1..Len(call.replacements) :
              Count(call.out, call.replacements[n].match) = 0

\* Whether value v has property k of its own.
Has(v, k) ==
    \/ v.t = "object" /\ k \in DOMAIN v.f
    \/ v.t = "string" /\ k = "length"

\* Whether, walking the path from v, some segment is absent from the value
\* reached so far.
RECURSIVE SomeSegmentAbsent(_, _)
SomeSegmentAbsent(v, path) ==
    IF path = <<>> THEN FALSE
    ELSE IF ~Has(v, Head(path)) THEN TRUE
    ELSE SomeSegmentAbsent(IF v.t = "object" THEN v.f[Head(path)] ELSE Num(Len(v.s)),
                           Tail(path))

\* C6: resolution never throws, a one-segment path resolves to the top-level
\* field of that name, and a path with a segment absent from the value
\* reached so far resolves to the empty string.
C6_MissingIsEmpty ==
    (call.op = "inject" /\ call.done) =>
        \A n \in 1..Len(call.replacements) :
            LET value == call.replacements[n].replace
                pj == call.packageJson
            IN  /\ value # Throw
                /\ (Len(call.path) = 1 /\ Has(pj, call.path[1])
                    /\ pj.f[call.path[1]] # Null) => value = pj.f[call.path[1]]
                /\ SomeSegmentAbsent(pj, call.path) => value = Str(<<>>)

\* How many segments of the path are looked up as top-level fields of the
\* descriptor: the first, and each one after a value that is null.
TopLevelLookups(packageJson, path) ==
    LET trace == ReduceTrace(packageJson, Null, path)
    IN  Cardinality({i \in 1..Len(path) : i = 1 \/ trace[i - 1] = Null})

\* C9 as stated: with a two-segment path whose first segment is null in the
\* descriptor, the result is the descriptor's top-level field of the second
\* segment.
C9_NullRestarts ==
    (call.op = "inject" /\ call.done /\ Len(call.path) = 2
     /\ Has(call.packageJson, call.path[1])
     /\ call.packageJson.f[call.path[1]] = Null) =>
        \A n \in 1..Len(call.replacements) :
            call.replacements[n].replace
                = OrEmpty(GetProp(call.packageJson, call.path[2]))

\* C9 (amended): only the first segment is looked up as a top-level field of
\* the descriptor; a null field becomes the empty string, which the next
\* segment indexes, so a two-segment path whose first segment is null
\* resolves to the empty string (to 0 when the second segment is length).
C9_NullOnlyBeforeFirst ==
    (call.op = "inject" /\ call.done) =>
        /\ TopLevelLookups(call.packageJson, call.path) = 1
        /\ \A n \in 1..Len(call.replacements) :
              (/\ Len(call.path) = 2
               /\ Has(call.packageJson, call.path[1])
               /\ call.packageJson.f[call.path[1]] = Null) =>
                  call.replacements[n].replace
                      = IF call.path[2] = "length" THEN Num(0) ELSE Str(<<>>)

\* The path a.b was resolved against a descriptor whose a is null and whose
\* top-level b is a text: the result is the empty string.
C9_Witness ==
    /\ call.op = "inject" /\ call.done
    /\ call.path = <<"a", "b">>
    /\ Has(call.packageJson, "a") /\ call.packageJson.f["a"] = Null
    /\ Has(call.packageJson, "b") /\ call.packageJson.f["b"] = Str(<<"top">>)
    /\ Len(call.replacements) >= 1
    /\ call.replacements[1].replace = Str(<<>>)

====
